---- MODULE Spec2Model ----
(***************************************************************************)
(* Model of the torrentapi client (package torrentapi, final option-based  *)
(* version): Token.IsValid, the query builder, API.call, processResponse,  *)
(* renewToken, makeRequest and New.                                        *)
(*                                                                         *)
(* Strings are sequences of chunks: a literal of the source is one chunk   *)
(* ("&mode=search"), data supplied by a caller or the server is spelled    *)
(* character by character, so that concatenation is \o.                    *)
(* Time is measured from time.Now(): a time.Time is held as the number of  *)
(* clock units it lies after the present instant, every instant of the     *)
(* past (the zero time.Time among them) is -1, and the passing of time     *)
(* lowers the instants held (Elapse).                                      *)
(* The remote server is the environment: every GET is answered by a        *)
(* nondeterministic choice of transport error, status and body.            *)
(***************************************************************************)
EXTENDS Integers, Sequences, FiniteSets, TLC

VARIABLES
    Query,            \* API.Query: the accumulated query string
    categories,       \* API.categories
    APIToken,         \* API.APIToken: [Token, Expires]
    maxRetries,       \* API.maxRetries
    reqDelay,         \* API.reqDelay
    tokenExpiration,  \* API.tokenExpiration
    pc,               \* "mr": inside makeRequest, about to GET; "idle": client
                      \* built, no call running; "done": call() has returned;
                      \* "failed": New returned an error and no client
    caller,           \* which makeRequest is running: "New", "renew1",
                      \* "search1", "renew2", "search2" ("" outside)
    maxAttempts,      \* makeRequest's local counter
    query,            \* call()'s local: the assembled request string
    apiResponse,      \* call()'s local: the envelope last decoded
    ret,              \* what call() returned: [data, err]
    log,              \* the requests, GETs and sleeps of the current call
    goroutine,        \* two goroutines sharing the client: for each its
                      \* position and its locals [pc, tmp, cats, query]
    mutex             \* the callers' lock around a whole chain: "absent"
                      \* (the callers use none), "free" or "held"

vars == <<Query, categories, APIToken, maxRetries, reqDelay, tokenExpiration,
          pc, caller, maxAttempts, query, apiResponse, ret, log,
          goroutine, mutex>>

----------------------------------------------------------------------------
(* Bounds of the model *)

\* largest value handed to the MaxRetries option
MaxRetriesBound == 3
\* number of Category calls chained before a terminal operation
MaxCategories == 1
\* builder: number of parameters chained before a terminal operation
MaxChain == 2
\* builder: number of Category calls chained before a terminal operation
MaxChainedCategories == 2

----------------------------------------------------------------------------
(* Program constants *)

tokenExpiredCode == 4
noResultsCode == 20
imdbNotFound == 10
StatusOK == 200
StatusTooManyRequests == 429

----------------------------------------------------------------------------
(* Values *)

\* an error value: nil, or one of the errors the package creates
Err(kind, text, code) == [kind |-> kind, text |-> text, code |-> code]
NoErr == Err("nil", "", 0)

\* TorrentResults: a Go slice is nil, or holds items (possibly none)
Results(items) == [isNil |-> FALSE, items |-> items]
NilResults == [isNil |-> TRUE, items |-> <<>>]

\* the zero Token{}: empty credential, zero time.Time
ZeroToken == [Token |-> "", Expires |-> -1]

\* the zero APIResponse{}: json.RawMessage nil, no error text, code 0
ZeroResponse == [Torrents |-> "absent", Error |-> "", ErrorCode |-> 0]

\* a nil *APIResponse
NilResponse == [Torrents |-> "nil", Error |-> "", ErrorCode |-> 0]

----------------------------------------------------------------------------
(* The environment: what the server may answer *)

\* the value of "torrent_results" in a body: the key is absent, or it is
\* an empty array, a one-element array [{"title": "Movie"}], the JSON null
\* (json.RawMessage keeps its four bytes, so the field is not nil), or
\* valid JSON that is no array of results
Payloads == {"absent", "[]", "[Movie]", "null", "notalist"}
ErrorCodes == {0, tokenExpiredCode, 5, imdbNotFound, noResultsCode}
Credentials == {"", "tokA", "tokB"}
OtherStatuses == {500}

\* a response body: not JSON at all, or a JSON object with these keys
Body(isJson, token, payload, error, code) ==
    [json |-> isJson, token |-> token, torrent_results |-> payload,
     error |-> error, error_code |-> code]
Garbage == Body(FALSE, "", "absent", "", 0)
\* bodies answered to a token request
RenewBodies == {Garbage} \cup {Body(TRUE, t, "absent", "", 0) : t \in Credentials}
\* bodies answered to a search/list request: no payload and an error text
\* with each code; no payload and no error text (with code 0 or 4); a
\* payload alone; a payload together with an error text and code 4
SearchBodies ==
    {Garbage}
    \cup {Body(TRUE, "", "absent", "error", c) : c \in ErrorCodes}
    \cup {Body(TRUE, "", "absent", "", c) : c \in {0, tokenExpiredCode}}
    \cup {Body(TRUE, "", p, "", 0) : p \in Payloads \ {"absent"}}
    \cup {Body(TRUE, "", p, "error", tokenExpiredCode) : p \in Payloads \ {"absent"}}

----------------------------------------------------------------------------
(* Strings *)

DigitChars == <<"0", "1", "2", "3", "4", "5", "6", "7", "8", "9">>

RECURSIVE Itoa(_)
\* strconv.Itoa
Itoa(n) ==
    IF n < 0 THEN <<"-">> \o Itoa(-n)
    ELSE IF n < 10 THEN <<DigitChars[n + 1]>>
    ELSE Itoa(n \div 10) \o <<DigitChars[(n % 10) + 1]>>

RECURSIVE Join(_, _)
\* strings.Join
Join(strs, sep) ==
    IF Len(strs) = 0 THEN <<>>
    ELSE IF Len(strs) = 1 THEN strs[1]
    ELSE strs[1] \o <<sep>> \o Join(Tail(strs), sep)

\* a Go string held in one piece, as chunks
Chunk(s) == IF s = "" THEN <<>> ELSE <<s>>

\* the characters url.QueryEscape leaves as they are (letters, digits and
\* - _ . ~), as far as the inputs of the model use them
Unreserved == {"a", "b", "e", "s", "t", "0", "1", "2", "-", "_", ".", "~"}
HexOf == [c \in {"&", "=", "%", "+", ";", "/"} |->
             CASE c = "&" -> <<"%", "2", "6">>
               [] c = "=" -> <<"%", "3", "D">>
               [] c = "%" -> <<"%", "2", "5">>
               [] c = "+" -> <<"%", "2", "B">>
               [] c = ";" -> <<"%", "3", "B">>
               [] c = "/" -> <<"%", "2", "F">>]

\* url.QueryEscape on one character: a space becomes "+", a character
\* that is not unreserved becomes %XX
EscapeChar(c) ==
    IF c \in Unreserved THEN <<c>>
    ELSE IF c = " " THEN <<"+">>
    ELSE HexOf[c]

\* an escape that leaves every character as it is
QueryEscapeIdentity(str) == str

RECURSIVE QueryEscape(_)
\* url.QueryEscape
QueryEscape(str) ==
    IF Len(str) = 0 THEN <<>>
    ELSE EscapeChar(Head(str)) \o QueryEscape(Tail(str))

----------------------------------------------------------------------------
(* Token *)

\* Token.IsValid: time.Now().After(t.Expires), time.Now() being instant 0
IsValid(t) ==
    IF t.Token = "" THEN FALSE
    ELSE IF 0 > t.Expires THEN FALSE
    ELSE TRUE

\* the token as it is held once d units of time have passed
Elapse(t, d) ==
    [t EXCEPT !.Expires = IF t.Expires - d < -1 THEN -1 ELSE t.Expires - d]

----------------------------------------------------------------------------
(* Response interpreter *)

\* a decoder that reports no error and leaves the slice nil
UnmarshalSwallowsError(payload) ==
    CASE payload = "[]" -> [data |-> Results(<<>>), err |-> NoErr]
      [] payload = "[Movie]" -> [data |-> Results(<<"Movie">>), err |-> NoErr]
      [] OTHER -> [data |-> NilResults, err |-> NoErr]

\* json.Unmarshal(apiResponse.Torrents, &data)
Unmarshal(payload) ==
    CASE payload = "[]" -> [data |-> Results(<<>>), err |-> NoErr]
      [] payload = "[Movie]" -> [data |-> Results(<<"Movie">>), err |-> NoErr]
      [] payload = "null" -> [data |-> NilResults, err |-> NoErr]
      [] OTHER -> [data |-> NilResults, err |-> Err("unmarshal", "", 0)]

\* processResponse that looks at the error text before the payload
processResponseErrorFirst(resp) ==
    IF resp.Error # ""
    THEN CASE resp.ErrorCode = tokenExpiredCode ->
                [data |-> NilResults, err |-> Err("expiredTokenError", "expired token", 0)]
           [] resp.ErrorCode \in {imdbNotFound, noResultsCode} ->
                [data |-> NilResults, err |-> NoErr]
           [] OTHER ->
                [data |-> NilResults, err |-> Err("api", resp.Error, resp.ErrorCode)]
    ELSE IF resp.Torrents # "absent"
    THEN Unmarshal(resp.Torrents)
    ELSE [data |-> NilResults, err |-> Err("unknown", "", 0)]

\* processResponse without the case for imdbNotFound
processResponseNoImdbCase(resp) ==
    IF resp.Torrents # "absent"
    THEN Unmarshal(resp.Torrents)
    ELSE IF resp.Error # ""
    THEN CASE resp.ErrorCode = tokenExpiredCode ->
                [data |-> NilResults, err |-> Err("expiredTokenError", "expired token", 0)]
           [] resp.ErrorCode = noResultsCode ->
                [data |-> NilResults, err |-> NoErr]
           [] OTHER ->
                [data |-> NilResults, err |-> Err("api", resp.Error, resp.ErrorCode)]
    ELSE [data |-> NilResults, err |-> Err("unknown", "", 0)]

\* API.processResponse
processResponse(resp) ==
    IF resp.Torrents # "absent"
    THEN LET u == Unmarshal(resp.Torrents)
         IN  IF u.err # NoErr THEN [data |-> NilResults, err |-> u.err]
             ELSE [data |-> u.data, err |-> NoErr]
    ELSE IF resp.Error # ""
    THEN CASE resp.ErrorCode = tokenExpiredCode ->
                [data |-> NilResults, err |-> Err("expiredTokenError", "expired token", 0)]
           [] resp.ErrorCode = imdbNotFound ->
                [data |-> NilResults, err |-> NoErr]
           [] resp.ErrorCode = noResultsCode ->
                [data |-> NilResults, err |-> NoErr]
           [] OTHER ->
                [data |-> NilResults, err |-> Err("api", resp.Error, resp.ErrorCode)]
    ELSE [data |-> NilResults, err |-> Err("unknown", "", 0)]

\* API.getResults, once makeRequest has returned (rerr, body)
getResults(rerr, body) ==
    IF rerr # NoErr THEN [resp |-> NilResponse, err |-> rerr]
    ELSE IF ~body.json THEN [resp |-> ZeroResponse, err |-> Err("decode", "", 0)]
    ELSE [resp |-> [Torrents |-> body.torrent_results, Error |-> body.error,
                    ErrorCode |-> body.error_code],
          err |-> NoErr]

\* renewToken that does not look at the decoder's error
renewTokenNoDecodeCheck(rerr, body) ==
    IF rerr # NoErr THEN [token |-> ZeroToken, err |-> rerr]
    ELSE [token |-> [Token |-> body.token, Expires |-> 0 + tokenExpiration],
          err |-> NoErr]

\* API.renewToken, once makeRequest has returned (rerr, body)
renewToken(rerr, body) ==
    IF rerr # NoErr THEN [token |-> ZeroToken, err |-> rerr]
    ELSE IF ~body.json
    THEN [token |-> ZeroToken, err |-> Err("error decoding token", "", 0)]
    ELSE [token |-> [Token |-> body.token, Expires |-> 0 + tokenExpiration],
          err |-> NoErr]

----------------------------------------------------------------------------
(* Query assembly *)

\* the base URL (ending in "?") and the application id, fixed per client
BaseURL == <<"URL?">>
AppID == <<"app">>

\* call() that joins the categories with "," 
CategoryParamComma(Q, cats) ==
    IF Len(cats) > 0
    THEN Q \o <<"&category=">> \o Join([i \in 1..Len(cats) |-> Itoa(cats[i])], ",")
    ELSE Q

\* call(): the category parameter, joined with ";" in call order
CategoryParam(Q, cats) ==
    IF Len(cats) > 0
    THEN Q \o <<"&category=">> \o Join([i \in 1..Len(cats) |-> Itoa(cats[i])], ";")
    ELSE Q

\* call(): fmt.Sprintf("%s&token=%s%s&app_id=%s", url, token, Query, appID)
FullQuery(credential, Q) ==
    BaseURL \o <<"&token=">> \o Chunk(credential) \o Q \o <<"&app_id=">> \o AppID

\* renewToken(): url + "get_token=get_token&app_id=" + appID
RenewQuery == BaseURL \o <<"get_token=get_token&app_id=">> \o AppID

\* initQuery that resets the categories only
initQueryKeepsQuery == [Query |-> Query, categories |-> <<>>]

\* initQuery that forgets the category list
initQueryKeepsCategories == [Query |-> <<>>, categories |-> categories]

\* call() without its deferred initQuery
initQueryNothing == [Query |-> Query, categories |-> categories]

\* API.initQuery: the query state it leaves behind
initQuery == [Query |-> <<>>, categories |-> <<>>]

----------------------------------------------------------------------------
(* The log of one call cycle (history of what was sent) *)

\* makeRequest is entered with request string q
ReqEv(kind, q) ==
    [ev |-> "req", kind |-> kind, status |-> 0, query |-> q, body |-> Garbage]
\* one GET and the status and body it was answered with (status 0: none)
GetEv(kind, status, body) ==
    [ev |-> "GET", kind |-> kind, status |-> status, query |-> <<>>, body |-> body]
\* one time.Sleep(reqDelay)
SleepEv(kind) ==
    [ev |-> "sleep", kind |-> kind, status |-> 0, query |-> <<>>, body |-> Garbage]

\* whether Body.Close() has run on the response of GET e when call() returns:
\* makeRequest hands only a 200 response to its caller, and getResults and
\* renewToken defer resp.Body.Close() on what they are handed; on its 429 and
\* other-status paths makeRequest drops the response without closing it
BodyClosed(e) == e.status = StatusOK

\* "renew" or "search": what the running makeRequest was called for
KindOf(c) == IF c \in {"search1", "search2"} THEN "search" ELSE "renew"

----------------------------------------------------------------------------
(* Transport and call controller *)

NoRet == [data |-> NilResults, err |-> NoErr]

\* makeRequest testing the counter for inequality with zero
MayRetryNotZero(attempts) == attempts # 0

\* makeRequest giving up one attempt early
MayRetryOneLess(attempts) == attempts > 1

\* makeRequest making one attempt too many
MayRetryOneMore(attempts) == attempts >= 0

\* makeRequest, line 316: after a 429, is another attempt made
MayRetry(attempts) == attempts > 0

\* call() that returns the expired-token error without retrying
RetryAfterNever(c, err) == FALSE

\* call() that retries after every expired-token error
RetryAfterAlways(c, err) == err.kind = "expiredTokenError"

\* call() that renews and retries after any error of the interpreter
RetryAfterAnyError(c, err) == c = "search1" /\ err # NoErr

\* call(), lines 223-224: the first interpretation's error is the
\* expired-token signal; the second interpretation is returned as it is
RetryAfter(c, err) == c = "search1" /\ err.kind = "expiredTokenError"

\* assignment of the controller's variables
Set(Q, cats, tok, q, resp, r, p, c, att, lg) ==
    /\ Query' = Q
    /\ categories' = cats
    /\ APIToken' = tok
    /\ query' = q
    /\ apiResponse' = resp
    /\ ret' = r
    /\ pc' = p
    /\ caller' = c
    /\ maxAttempts' = att
    /\ log' = lg
    /\ UNCHANGED <<goroutine, mutex>>

\* call() returns (data, err): the deferred initQuery runs
Return(tok, resp, data, err, att, lg) ==
    Set(initQuery.Query, initQuery.categories, tok, query, resp,
        [data |-> data, err |-> err], "done", "", att, lg)

\* call(), lines 210-218: finalize the categories, assemble the request
\* and hand it to makeRequest
SendFirst(Q, tok, lg) ==
    LET Q2 == CategoryParam(Q, categories)
        q == FullQuery(tok.Token, Q2)
    IN  Set(Q2, categories, tok, q, NilResponse, NoRet, "mr", "search1",
            maxRetries, Append(lg, ReqEv("search", q)))

\* call() that stores the renewed token only when the renewal succeeded
AfterRenewKeepsTokenOnFailure(rerr, body, att, lg) ==
    LET r == renewToken(rerr, body)
    IN  IF r.err # NoErr
        THEN Return(APIToken, apiResponse, NilResults, r.err, att, lg)
        ELSE IF caller = "renew1"
        THEN SendFirst(Query, r.token, lg)
        ELSE Set(Query, categories, r.token, query, apiResponse, NoRet, "mr",
                 "search2", maxRetries, Append(lg, ReqEv("search", query)))

\* call() that assembles the request again for the retry
AfterRenewReassembles(rerr, body, att, lg) ==
    LET r == renewToken(rerr, body)
        Q2 == CategoryParam(Query, categories)
        q == FullQuery(r.token.Token, Q2)
    IN  IF r.err # NoErr
        THEN Return(r.token, apiResponse, NilResults, r.err, att, lg)
        ELSE IF caller = "renew1"
        THEN SendFirst(Query, r.token, lg)
        ELSE Set(Q2, categories, r.token, q, apiResponse, NoRet, "mr",
                 "search2", maxRetries, Append(lg, ReqEv("search", q)))

\* call() that goes on to the search although the renewal failed
AfterRenewIgnoresFailure(rerr, body, att, lg) ==
    LET r == renewToken(rerr, body)
    IN  IF caller = "renew1"
        THEN SendFirst(Query, r.token, lg)
        ELSE Set(Query, categories, r.token, query, apiResponse, NoRet, "mr",
                 "search2", maxRetries, Append(lg, ReqEv("search", query)))

\* call(), lines 203-209 and 226-234, after renewToken returned
AfterRenew(rerr, body, att, lg) ==
    LET r == renewToken(rerr, body)
    IN  IF r.err # NoErr
        THEN Return(r.token, apiResponse, NilResults, r.err, att, lg)
        ELSE IF caller = "renew1"
        THEN SendFirst(Query, r.token, lg)
        ELSE Set(Query, categories, r.token, query, apiResponse, NoRet, "mr",
                 "search2", maxRetries, Append(lg, ReqEv("search", query)))

\* call(), lines 218-237, after getResults returned
AfterSearch(rerr, body, att, lg) ==
    LET g == getResults(rerr, body)
        p == processResponse(g.resp)
    IN  IF g.err # NoErr
        THEN Return(APIToken, g.resp, NilResults, g.err, att, lg)
        ELSE IF RetryAfter(caller, p.err)
        THEN Set(Query, categories, APIToken, query, g.resp, NoRet, "mr",
                 "renew2", maxRetries, Append(lg, ReqEv("renew", RenewQuery)))
        ELSE Return(APIToken, g.resp, p.data, p.err, att, lg)

\* New() that returns the client without storing the token
AfterNewDropsToken(rerr, body, att, lg) ==
    LET r == renewToken(rerr, body)
    IN  IF r.err # NoErr
        THEN Set(Query, categories, APIToken, query, apiResponse,
                 [data |-> NilResults, err |-> Err("error renewing token", r.err.kind, 0)],
                 "failed", "", att, lg)
        ELSE Set(initQuery.Query, initQuery.categories, APIToken, query,
                 apiResponse, NoRet, "idle", "", att, lg)

\* New(), lines 383-389, after renewToken returned
AfterNew(rerr, body, att, lg) ==
    LET r == renewToken(rerr, body)
    IN  IF r.err # NoErr
        THEN Set(Query, categories, APIToken, query, apiResponse,
                 [data |-> NilResults, err |-> Err("error renewing token", r.err.kind, 0)],
                 "failed", "", att, lg)
        ELSE Set(initQuery.Query, initQuery.categories, r.token, query,
                 apiResponse, NoRet, "idle", "", att, lg)

\* makeRequest returns (rerr, body) to whoever called it
Returned(rerr, body, att, lg) ==
    CASE caller = "New" -> AfterNew(rerr, body, att, lg)
      [] caller \in {"renew1", "renew2"} -> AfterRenew(rerr, body, att, lg)
      [] caller \in {"search1", "search2"} -> AfterSearch(rerr, body, att, lg)

\* the bodies the server may answer to the running request
BodiesFor(c) == IF KindOf(c) = "search" THEN SearchBodies ELSE RenewBodies

\* makeRequest: the GET is answered 200 with a body
GetOK ==
    /\ pc = "mr"
    /\ \E body \in BodiesFor(caller) :
          Returned(NoErr, body, maxAttempts - 1,
                   Append(log, GetEv(KindOf(caller), StatusOK, body)))
    /\ UNCHANGED <<maxRetries, reqDelay, tokenExpiration>>

\* makeRequest that backs off for search/list requests only
GetTooManySearchOnly ==
    /\ pc = "mr"
    /\ LET att == maxAttempts - 1
           lg == Append(log, GetEv(KindOf(caller), StatusTooManyRequests, Garbage))
       IN  IF MayRetry(att) /\ KindOf(caller) = "search"
           THEN Set(Query, categories, Elapse(APIToken, reqDelay), query,
                    apiResponse, ret, pc, caller, att,
                    Append(lg, SleepEv(KindOf(caller))))
           ELSE Returned(Err("maximum number of attempts reached", "", 0),
                         Garbage, att, lg)
    /\ UNCHANGED <<maxRetries, reqDelay, tokenExpiration>>

\* makeRequest: the GET is answered 429; sleep and go round, or give up
GetTooMany ==
    /\ pc = "mr"
    /\ LET att == maxAttempts - 1
           lg == Append(log, GetEv(KindOf(caller), StatusTooManyRequests, Garbage))
       IN  IF MayRetry(att)
           THEN Set(Query, categories, Elapse(APIToken, reqDelay), query,
                    apiResponse, ret, pc, caller, att,
                    Append(lg, SleepEv(KindOf(caller))))
           ELSE Returned(Err("maximum number of attempts reached", "", 0),
                         Garbage, att, lg)
    /\ UNCHANGED <<maxRetries, reqDelay, tokenExpiration>>

\* makeRequest treating every non-200 status as it treats 429
GetOtherStatusRetried ==
    /\ pc = "mr"
    /\ \E st \in OtherStatuses :
          LET att == maxAttempts - 1
              lg == Append(log, GetEv(KindOf(caller), st, Garbage))
          IN  IF MayRetry(att)
              THEN Set(Query, categories, Elapse(APIToken, reqDelay), query,
                       apiResponse, ret, pc, caller, att,
                       Append(lg, SleepEv(KindOf(caller))))
              ELSE Returned(Err("maximum number of attempts reached", "", 0),
                            Garbage, att, lg)
    /\ UNCHANGED <<maxRetries, reqDelay, tokenExpiration>>

\* makeRequest: the GET is answered with another status
GetOtherStatus ==
    /\ pc = "mr"
    /\ \E st \in OtherStatuses :
          Returned(Err("non 200-OK respose", "", st), Garbage, maxAttempts - 1,
                   Append(log, GetEv(KindOf(caller), st, Garbage)))
    /\ UNCHANGED <<maxRetries, reqDelay, tokenExpiration>>

\* makeRequest: client.Do fails (no response)
GetNetErr ==
    /\ pc = "mr"
    /\ Returned(Err("client.Do", "", 0), Garbage, maxAttempts - 1,
                Append(log, GetEv(KindOf(caller), 0, Garbage)))
    /\ UNCHANGED <<maxRetries, reqDelay, tokenExpiration>>

\* call() that renews the token whether it is valid or not
callAlwaysRenews(Q) ==
    /\ Set(Q, categories, APIToken, <<>>, NilResponse, NoRet, "mr",
           "renew1", maxRetries, <<ReqEv("renew", RenewQuery)>>)
    /\ UNCHANGED <<maxRetries, reqDelay, tokenExpiration>>

\* API.call, entered with the accumulated query Q
call(Q) ==
    /\ IF ~IsValid(APIToken)
       THEN Set(Q, categories, APIToken, <<>>, NilResponse, NoRet, "mr",
                "renew1", maxRetries, <<ReqEv("renew", RenewQuery)>>)
       ELSE SendFirst(Q, APIToken, <<>>)
    /\ UNCHANGED <<maxRetries, reqDelay, tokenExpiration>>

\* API.Search
Search ==
    /\ pc \in {"idle", "done"}
    /\ call(Query \o <<"&mode=search">>)

\* API.List
List ==
    /\ pc \in {"idle", "done"}
    /\ call(Query \o <<"&mode=list">>)

\* a chained configuration call starts a new cycle: the previous call's
\* result and log are dropped
Chain(Q, cats) ==
    /\ pc \in {"idle", "done"}
    /\ Set(Q, cats, APIToken, <<>>, NilResponse, NoRet, "idle", "", maxAttempts, <<>>)
    /\ UNCHANGED <<maxRetries, reqDelay, tokenExpiration>>

\* inputs of the builder
CategoryCodes == {14}

\* API.Category
Category ==
    \E c \in CategoryCodes :
        /\ Len(categories) < MaxCategories
        /\ Chain(Query, Append(categories, c))

\* the literals that start a parameter of the accumulated query
ParamLiterals ==
    {"&search_string=", "&search_tvdb=", "&search_imdb=", "&search_themoviedb=",
     "&format=", "&limit=", "&sort=", "&ranked=1", "&ranked=0",
     "&min_seeders=", "&min_leechers="}
\* number of parameters chained so far
ParamCount(Q) == Len(SelectSeq(Q, LAMBDA c : c \in ParamLiterals))

\* a.Query += param, by a chainable operation
AppendParam(param) == Chain(Query \o param, categories)

\* inputs of the chainable operations
SearchStrings == {<<"t", "e", "s", "t">>, <<"a", " ", "&">>}
Ids == {<<"t", "t", "1">>}
Formats == {<<"json_extended">>}
Sorts == {<<"seeders">>}
Limits == {25}
MinCounts == {7}
ChainedCategoryCodes == {4, 14}

\* API.SearchString
SearchString ==
    \E str \in SearchStrings :
        /\ ParamCount(Query) < MaxChain
        /\ AppendParam(<<"&search_string=">> \o QueryEscape(str))

\* API.SearchTVDB
SearchTVDB ==
    \E seriesid \in Ids :
        /\ ParamCount(Query) < MaxChain
        /\ AppendParam(<<"&search_tvdb=">> \o seriesid)

\* API.SearchIMDb
SearchIMDb ==
    \E movieid \in Ids :
        /\ ParamCount(Query) < MaxChain
        /\ AppendParam(<<"&search_imdb=">> \o movieid)

\* API.SearchTheMovieDb
SearchTheMovieDb ==
    \E movieid \in Ids :
        /\ ParamCount(Query) < MaxChain
        /\ AppendParam(<<"&search_themoviedb=">> \o movieid)

\* API.Format
Format ==
    \E format \in Formats :
        /\ ParamCount(Query) < MaxChain
        /\ AppendParam(<<"&format=">> \o format)

\* API.Limit
Limit ==
    \E limit \in Limits :
        /\ ParamCount(Query) < MaxChain
        /\ AppendParam(<<"&limit=">> \o Itoa(limit))

\* API.Sort
Sort ==
    \E sort \in Sorts :
        /\ ParamCount(Query) < MaxChain
        /\ AppendParam(<<"&sort=">> \o sort)

\* API.Ranked
Ranked ==
    \E ranked \in BOOLEAN :
        /\ ParamCount(Query) < MaxChain
        /\ AppendParam(IF ranked THEN <<"&ranked=1">> ELSE <<"&ranked=0">>)

\* API.MinSeeders
MinSeeders ==
    \E minSeed \in MinCounts :
        /\ ParamCount(Query) < MaxChain
        /\ AppendParam(<<"&min_seeders=">> \o Itoa(minSeed))

\* API.MinLeechers
MinLeechers ==
    \E minLeech \in MinCounts :
        /\ ParamCount(Query) < MaxChain
        /\ AppendParam(<<"&min_leechers=">> \o Itoa(minLeech))

\* API.Category, with the inputs of the builder
CategoryChained ==
    \E c \in ChainedCategoryCodes :
        /\ Len(categories) < MaxChainedCategories
        /\ Chain(Query, Append(categories, c))

\* makeRequest of a search/list request: the GET is answered 200 with a
\* one-element list
GetOKMovie ==
    /\ GetOK
    /\ ret' = [data |-> Results(<<"Movie">>), err |-> NoErr]

\* a unit of time passes between calls
Tick ==
    /\ pc \in {"idle", "done"}
    /\ APIToken' = Elapse(APIToken, 1)
    /\ APIToken' # APIToken
    /\ UNCHANGED <<Query, categories, maxRetries, reqDelay, tokenExpiration,
                   pc, caller, maxAttempts, query, apiResponse, ret, log,
                   goroutine, mutex>>

----------------------------------------------------------------------------
(* Configuration and construction *)

\* the goroutines that use one client, and their locals: the position pc,
\* the value read by a += or an append before it is written back (tmp),
\* call()'s copy of the category list (cats) and call()'s local query
Goroutines == {1, 2}
Local(p, tmp, cats, q) == [pc |-> p, tmp |-> tmp, cats |-> cats, query |-> q]
NoGoroutines == [t \in Goroutines |-> Local("start", <<>>, <<>>, <<>>)]

\* New(): the values given to the options MaxRetries, RequestDelay and
\* TokenExpiration
MaxRetriesOptions == -1 .. MaxRetriesBound
ReqDelays == {1}
TokenExpirations == {1}

\* New(), lines 369-383: the options are applied and the first token is
\* requested
Init ==
    /\ Query = <<>>
    /\ categories = <<>>
    /\ APIToken = ZeroToken
    /\ maxRetries \in MaxRetriesOptions
    /\ reqDelay \in ReqDelays
    /\ tokenExpiration \in TokenExpirations
    /\ pc = "mr"
    /\ caller = "New"
    /\ maxAttempts = maxRetries
    /\ query = <<>>
    /\ apiResponse = NilResponse
    /\ ret = NoRet
    /\ log = <<ReqEv("renew", RenewQuery)>>
    /\ goroutine = NoGoroutines
    /\ mutex = "absent"

Next ==
    \/ GetOK
    \/ GetTooMany
    \/ GetOtherStatus
    \/ GetNetErr
    \/ Search
    \/ List
    \/ Category
    \/ Tick

Spec == Init /\ [][Next]_vars

\* makeRequest runs on: the GET it is about to issue is issued and comes
\* back, with a response or with an error
GetReturns == GetOK \/ GetTooMany \/ GetOtherStatus \/ GetNetErr

\* the client under the assumption that no GET stays unanswered for ever
SpecFair == Spec /\ WF_vars(GetReturns)

\* The builder: a client New has just returned with a token, with every
\* chainable operation, against a server that answers every search with a
\* list and at once (no time passes, so the token stays valid)
InitBuilder ==
    /\ Query = <<>>
    /\ categories = <<>>
    /\ APIToken = [Token |-> "tokA", Expires |-> 1]
    /\ maxRetries = 1
    /\ reqDelay = 1
    /\ tokenExpiration = 1
    /\ pc = "idle"
    /\ caller = ""
    /\ maxAttempts = 0
    /\ query = <<>>
    /\ apiResponse = NilResponse
    /\ ret = NoRet
    /\ log = <<ReqEv("renew", RenewQuery),
               GetEv("renew", StatusOK, Body(TRUE, "tokA", "absent", "", 0))>>
    /\ goroutine = NoGoroutines
    /\ mutex = "absent"

NextBuilder ==
    \/ SearchString
    \/ SearchTVDB
    \/ SearchIMDb
    \/ SearchTheMovieDb
    \/ Format
    \/ Limit
    \/ Sort
    \/ Ranked
    \/ MinSeeders
    \/ MinLeechers
    \/ CategoryChained
    \/ Search
    \/ List
    \/ GetOKMovie

SpecBuilder == InitBuilder /\ [][NextBuilder]_vars

(***************************************************************************)
(* Two goroutines on one client.  Each runs the chain                      *)
(* a.Limit(n).Category(c).Search() with its own n and c; every read and    *)
(* every write of the shared fields a.Query and a.categories is a step of  *)
(* its own, so that the steps of the two chains interleave.  The callers   *)
(* either use no lock (mutex = "absent") or hold one lock from the first   *)
(* builder call until call() has returned.  The token is valid and the     *)
(* server answers every search, so the steps are those of lines 210-217    *)
(* and of the deferred initQuery.                                          *)
(***************************************************************************)

\* the arguments goroutine t chains: Limit(LimitOf(t)), Category(CategoryOf(t))
LimitOf(t) == t
CategoryOf(t) == IF t = 1 THEN 4 ELSE 18

\* goroutine t moves from position from to position to with new locals
Step(t, from, to, tmp, cats, q) ==
    /\ goroutine[t].pc = from
    /\ goroutine' = [goroutine EXCEPT ![t] = Local(to, tmp, cats, q)]

\* what a step of a goroutine leaves alone: the token, the configuration and
\* the position of the sequential model
SharedUnchanged ==
    UNCHANGED <<APIToken, maxRetries, reqDelay, tokenExpiration, pc, caller,
                maxAttempts, query, apiResponse, ret, log>>

\* the caller's mu.Lock() before the chain, when the callers use a lock
Lock ==
    \E t \in Goroutines :
        /\ mutex # "held"
        /\ Step(t, "start", "limit_r", <<>>, <<>>, <<>>)
        /\ mutex' = IF mutex = "absent" THEN "absent" ELSE "held"
        /\ UNCHANGED <<Query, categories>>
        /\ SharedUnchanged

\* Limit: a.Query += ..., the read of a.Query
LimitRead ==
    \E t \in Goroutines :
        /\ Step(t, "limit_r", "limit_w", Query, <<>>, <<>>)
        /\ UNCHANGED <<Query, categories, mutex>>
        /\ SharedUnchanged

\* Limit: a.Query += fmt.Sprintf("&limit=%d", limit), the write
LimitWrite ==
    \E t \in Goroutines :
        /\ Step(t, "limit_w", "category_r", <<>>, <<>>, <<>>)
        /\ Query' = goroutine[t].tmp \o <<"&limit=">> \o Itoa(LimitOf(t))
        /\ UNCHANGED <<categories, mutex>>
        /\ SharedUnchanged

\* Category: append(a.categories, category), the read of a.categories
CategoryRead ==
    \E t \in Goroutines :
        /\ Step(t, "category_r", "category_w", categories, <<>>, <<>>)
        /\ UNCHANGED <<Query, categories, mutex>>
        /\ SharedUnchanged

\* Category: a.categories = append(...), the write
CategoryWrite ==
    \E t \in Goroutines :
        /\ Step(t, "category_w", "search_r", <<>>, <<>>, <<>>)
        /\ categories' = Append(goroutine[t].tmp, CategoryOf(t))
        /\ UNCHANGED <<Query, mutex>>
        /\ SharedUnchanged

\* Search: a.Query += "&mode=search", the read of a.Query
SearchRead ==
    \E t \in Goroutines :
        /\ Step(t, "search_r", "search_w", Query, <<>>, <<>>)
        /\ UNCHANGED <<Query, categories, mutex>>
        /\ SharedUnchanged

\* Search: a.Query += "&mode=search", the write
SearchWrite ==
    \E t \in Goroutines :
        /\ Step(t, "search_w", "call_cats", <<>>, <<>>, <<>>)
        /\ Query' = goroutine[t].tmp \o <<"&mode=search">>
        /\ UNCHANGED <<categories, mutex>>
        /\ SharedUnchanged

\* call(): the token is valid; len(a.categories) > 0 and the range over
\* a.categories read the shared list
CallReadCategories ==
    \E t \in Goroutines :
        /\ IsValid(APIToken)
        /\ Step(t, "call_cats", "call_r", <<>>, categories, <<>>)
        /\ UNCHANGED <<Query, categories, mutex>>
        /\ SharedUnchanged

\* call(): a.Query += "&category=...", the read of a.Query (skipped when the
\* list read was empty)
CallReadQuery ==
    \E t \in Goroutines :
        /\ Step(t, "call_r",
                IF Len(goroutine[t].cats) > 0 THEN "call_w" ELSE "assemble",
                Query, goroutine[t].cats, <<>>)
        /\ UNCHANGED <<Query, categories, mutex>>
        /\ SharedUnchanged

\* call(): a.Query += fmt.Sprintf("&category=%s", ...), the write
CallWriteQuery ==
    \E t \in Goroutines :
        /\ Step(t, "call_w", "assemble", <<>>, <<>>, <<>>)
        /\ Query' = CategoryParam(goroutine[t].tmp, goroutine[t].cats)
        /\ UNCHANGED <<categories, mutex>>
        /\ SharedUnchanged

\* call(): query := fmt.Sprintf(..., a.APIToken.Token, a.Query, a.appID)
Assemble ==
    \E t \in Goroutines :
        /\ Step(t, "assemble", "get", <<>>, <<>>,
                FullQuery(APIToken.Token, Query))
        /\ UNCHANGED <<Query, categories, mutex>>
        /\ SharedUnchanged

\* call(): getResults(query) sends the local string and is answered with a
\* list; call() reaches its return and the deferred initQuery
Get ==
    \E t \in Goroutines :
        /\ Step(t, "get", "reset_cats", <<>>, <<>>, goroutine[t].query)
        /\ UNCHANGED <<Query, categories, mutex>>
        /\ SharedUnchanged

\* initQuery: a.categories = a.categories[:0]
ResetCategories ==
    \E t \in Goroutines :
        /\ Step(t, "reset_cats", "reset_query", <<>>, <<>>, goroutine[t].query)
        /\ categories' = initQuery.categories
        /\ UNCHANGED <<Query, mutex>>
        /\ SharedUnchanged

\* initQuery: a.Query = ""; call() has returned and the caller's mu.Unlock()
\* follows
ResetQuery ==
    \E t \in Goroutines :
        /\ Step(t, "reset_query", "end", <<>>, <<>>, goroutine[t].query)
        /\ Query' = initQuery.Query
        /\ mutex' = IF mutex = "absent" THEN "absent" ELSE "free"
        /\ UNCHANGED categories
        /\ SharedUnchanged

InitConcurrent ==
    /\ Query = <<>>
    /\ categories = <<>>
    /\ APIToken = [Token |-> "tokA", Expires |-> 1]
    /\ maxRetries = 1
    /\ reqDelay = 1
    /\ tokenExpiration = 1
    /\ pc = "idle"
    /\ caller = ""
    /\ maxAttempts = 0
    /\ query = <<>>
    /\ apiResponse = NilResponse
    /\ ret = NoRet
    /\ log = <<>>
    /\ goroutine = NoGoroutines
    /\ mutex \in {"absent", "free"}

NextConcurrent ==
    \/ Lock
    \/ LimitRead
    \/ LimitWrite
    \/ CategoryRead
    \/ CategoryWrite
    \/ SearchRead
    \/ SearchWrite
    \/ CallReadCategories
    \/ CallReadQuery
    \/ CallWriteQuery
    \/ Assemble
    \/ Get
    \/ ResetCategories
    \/ ResetQuery

SpecConcurrent == InitConcurrent /\ [][NextConcurrent]_vars

----------------------------------------------------------------------------
(* Reading the log *)

IsReq(e) == e.ev = "req"
IsGet(e) == e.ev = "GET"
IsSleep(e) == e.ev = "sleep"
IsSearchReq(e) == e.ev = "req" /\ e.kind = "search"
\* a search/list request answered 200
IsSearchOK(e) == e.ev = "GET" /\ e.kind = "search" /\ e.status = StatusOK
\* a token request answered 200 with a JSON body
IsRenewOK(e) == e.ev = "GET" /\ e.kind = "renew" /\ e.status = StatusOK /\ e.body.json

SetMin(S) == CHOOSE x \in S : \A y \in S : x <= y

ReqIdx == {i \in DOMAIN log : IsReq(log[i])}
\* the last event of the request entered at log position i
SegEnd(i) ==
    LET later == {j \in (i + 1)..Len(log) : IsReq(log[j])}
    IN  IF later = {} THEN Len(log) ELSE SetMin(later) - 1
\* the GETs and sleeps of the request entered at i, and its GETs
Seg(i) == SubSeq(log, i + 1, SegEnd(i))
Gets(i) == SelectSeq(Seg(i), IsGet)
Sleeps(i) == SelectSeq(Seg(i), IsSleep)
\* makeRequest has returned from the request entered at i
Finished(i) == SegEnd(i) < Len(log) \/ pc # "mr"
All429(g) == \A j \in DOMAIN g : g[j].status = StatusTooManyRequests

\* the 200 answers to the search requests of the call, in order
Answers == SelectSeq(log, IsSearchOK)
SearchReqs == SelectSeq(log, IsSearchReq)
\* the requests of the call from its first search request on
FromFirstSearch ==
    LET s == {i \in ReqIdx : log[i].kind = "search"}
    IN  IF s = {} THEN <<>> ELSE SubSeq(log, SetMin(s), Len(log))
ReqsFromFirstSearch == SelectSeq(FromFirstSearch, IsReq)
KindsFromFirstSearch ==
    LET r == ReqsFromFirstSearch
    IN  [i \in 1..Len(r) |-> r[i].kind]
RenewalsAfterFirstSearch ==
    Len(SelectSeq(ReqsFromFirstSearch, LAMBDA e : e.kind = "renew"))

\* a body the interpreter reads as the expired-token signal
Signal(b) ==
    b.json /\ b.torrent_results = "absent" /\ b.error # "" /\ b.error_code = 4
\* a body with a payload that is a result list, and the list it spells
ValidPayload(b) == b.json /\ b.torrent_results \in {"[]", "[Movie]", "null"}
Decoded(b) ==
    CASE b.torrent_results = "[]" -> Results(<<>>)
      [] b.torrent_results = "[Movie]" -> Results(<<"Movie">>)
      [] OTHER -> NilResults
\* the last event of the log is a search answer 200 with a JSON body
LastIsAnswer ==
    /\ Len(log) > 0
    /\ IsSearchOK(log[Len(log)])
    /\ log[Len(log)].body.json
LastBody == log[Len(log)].body
LastReq == CHOOSE i \in ReqIdx : \A j \in ReqIdx : j <= i

\* the log is that of a call() (New leaves its own log behind)
InCall == pc = "done" \/ (pc = "mr" /\ caller # "New")
\* the last GET of the request entered at i (which has at least one)
LastGet(i) == LET g == Gets(i) IN g[Len(g)]
\* position of the first search request of the call
SearchIdx == {i \in ReqIdx : log[i].kind = "search"}
FirstSearch == SetMin(SearchIdx)
\* position of the renewal requested after the first search request
RenewIdxAfterSearch ==
    LET s == SearchIdx
    IN  IF s = {} THEN {}
        ELSE LET f == SetMin(s)
             IN  {i \in (f + 1)..Len(log) : IsReq(log[i]) /\ log[i].kind = "renew"}
\* the error makeRequest returns for a GET answered e (nil for a 200)
TransportError(e) ==
    CASE e.status = StatusOK -> NoErr
      [] e.status = StatusTooManyRequests ->
            Err("maximum number of attempts reached", "", 0)
      [] e.status = 0 -> Err("client.Do", "", 0)
      [] OTHER -> Err("non 200-OK respose", "", e.status)
\* the error a renewal answered e at last ends with (nil if it succeeds)
RenewalError(e) ==
    IF e.status # StatusOK THEN TransportError(e)
    ELSE IF ~e.body.json THEN Err("error decoding token", "", 0)
    ELSE NoErr
\* the error a search answered e at last ends with, if it is a transport
\* failure, an envelope decode failure, a protocol error or an API error
\* with a code other than 4 (nil otherwise)
FatalSearchError(e) ==
    IF e.status # StatusOK THEN TransportError(e)
    ELSE IF ~e.body.json THEN Err("decode", "", 0)
    ELSE IF e.body.torrent_results # "absent" THEN NoErr
    ELSE IF e.body.error = "" THEN Err("unknown", "", 0)
    ELSE IF e.body.error_code \in {4, 10, 20} THEN NoErr
    ELSE Err("api", e.body.error, e.body.error_code)

----------------------------------------------------------------------------
(* Claims *)

\* C1: after call() returns, on every path, the accumulated query string
\* and the category list are empty.
C1_QueryStateCleared ==
    pc = "done" => Query = <<>> /\ categories = <<>>

\* a failed call whose request carried a category parameter
C1_Witness ==
    /\ pc = "done"
    /\ ret.err # NoErr
    /\ \E i \in DOMAIN query : query[i] = "&category="
    /\ Query = <<>>
    /\ categories = <<>>

\* C2: if the first answer is the expired-token signal, a renewal follows;
\* if the renewal succeeds the same search is sent again; and if the second
\* answer carries a valid payload, call() returns exactly that payload with
\* no error, the requests being search, renewal, search in this order.
C2_RetryReturnsSecondPayload ==
    pc = "done" =>
        LET a == Answers
            f == FromFirstSearch
            k == KindsFromFirstSearch
        IN  (Len(a) >= 1 /\ Signal(a[1].body)) =>
                /\ Len(k) >= 2
                /\ k[2] = "renew"
                /\ (\E i \in DOMAIN f : IsRenewOK(f[i]))
                      => k = <<"search", "renew", "search">>
                /\ (Len(a) = 2 /\ ValidPayload(a[2].body))
                      => /\ ret = [data |-> Decoded(a[2].body), err |-> NoErr]
                         /\ k = <<"search", "renew", "search">>

\* expired token, renewal, then a one-element list: the list is returned
C2_Witness ==
    /\ pc = "done"
    /\ Len(Answers) = 2
    /\ Signal(Answers[1].body)
    /\ Answers[2].body.torrent_results = "[Movie]"
    /\ ret = [data |-> Results(<<"Movie">>), err |-> NoErr]
    /\ KindsFromFirstSearch = <<"search", "renew", "search">>

\* C3: one call never issues a third search request nor a second renewal
\* after the expired-token signal; if the first and the second answer are
\* both the signal, call() has failed after exactly two search requests and
\* one renewal.
C3_RetryBoundedToOne ==
    /\ Len(SearchReqs) <= 2
    /\ RenewalsAfterFirstSearch <= 1
    /\ (Len(Answers) >= 2 /\ Signal(Answers[1].body) /\ Signal(Answers[2].body))
          => /\ pc = "done"
             /\ ret.err # NoErr
             /\ Len(SearchReqs) = 2
             /\ RenewalsAfterFirstSearch = 1

\* the server answers code 4 twice
C3_Witness ==
    /\ pc = "done"
    /\ Len(Answers) = 2
    /\ Signal(Answers[1].body)
    /\ Signal(Answers[2].body)
    /\ ret.err # NoErr
    /\ Len(SearchReqs) = 2

\* C4: the expired-token error is never the error call() returns.
C4_ExpiredTokenNeverReturned ==
    pc = "done" => ret.err.kind # "expiredTokenError"

\* C5 as stated: an answered envelope with neither or with both of payload
\* and error text makes the call fail.
C5_MalformedEnvelopeFails ==
    \A i \in DOMAIN log :
        (/\ IsSearchOK(log[i])
         /\ log[i].body.json
         /\ (log[i].body.torrent_results # "absent") = (log[i].body.error # ""))
        => pc = "done" /\ ret.err # NoErr

\* C5 amended: an envelope with neither payload nor error text makes the
\* call fail; an envelope with both is read by its payload alone: the call
\* returns the decoded list with no error, or fails when the payload is no
\* result list.
C5_PayloadDecidesFirst ==
    \A i \in DOMAIN log :
        (IsSearchOK(log[i]) /\ log[i].body.json) =>
            LET b == log[i].body
            IN  /\ (b.torrent_results = "absent" /\ b.error = "")
                      => /\ pc = "done"
                         /\ i = Len(log)
                         /\ ret = [data |-> NilResults, err |-> Err("unknown", "", 0)]
                /\ (b.torrent_results # "absent" /\ b.error # "")
                      => /\ pc = "done"
                         /\ i = Len(log)
                         /\ IF ValidPayload(b)
                            THEN ret = [data |-> Decoded(b), err |-> NoErr]
                            ELSE ret = [data |-> NilResults,
                                        err |-> Err("unmarshal", "", 0)]

\* an envelope with a list and an error text of code 4 is returned as a
\* success
C5_Witness ==
    /\ pc = "done"
    /\ LastIsAnswer
    /\ LastBody.torrent_results = "[Movie]"
    /\ LastBody.error # ""
    /\ ret = [data |-> Results(<<"Movie">>), err |-> NoErr]

\* C6: IsValid is false for an empty credential, false for an expiry at or
\* before the present instant, and true otherwise.
\* So a call that has just started (one request in the log, the token as it
\* was on entry) sends its search without a renewal exactly when the
\* credential is non-empty and the expiry lies strictly after the present.
C6_IsValidStrictlyBefore ==
    (pc = "mr" /\ Len(log) = 1 /\ caller \in {"renew1", "search1"})
        => (caller = "search1") = (APIToken.Token # "" /\ 0 < APIToken.Expires)

\* C7: an answer without payload and with an error text of code 20 or 10
\* ends the call with a nil result and no error, nothing being sent after
\* it; with any code other than 4, 10 and 20 it ends the call with an error
\* carrying the text and the code.
C7_ErrorCodeDispatch ==
    \A i \in DOMAIN log :
        (/\ IsSearchOK(log[i])
         /\ log[i].body.json
         /\ log[i].body.torrent_results = "absent"
         /\ log[i].body.error # "") =>
            LET b == log[i].body
            IN  /\ b.error_code \in {20, 10}
                      => /\ pc = "done"
                         /\ i = Len(log)
                         /\ ret = [data |-> NilResults, err |-> NoErr]
                /\ b.error_code \notin {4, 10, 20}
                      => /\ pc = "done"
                         /\ i = Len(log)
                         /\ ret = [data |-> NilResults,
                                   err |-> Err("api", b.error, b.error_code)]

\* code 10 answered to the first search of a call
C7_Witness ==
    /\ pc = "done"
    /\ LastIsAnswer
    /\ LastBody.torrent_results = "absent"
    /\ LastBody.error # ""
    /\ LastBody.error_code = 10
    /\ Len(SearchReqs) = 1
    /\ RenewalsAfterFirstSearch = 0
    /\ ret = [data |-> NilResults, err |-> NoErr]

\* C8: a request answered 429 k times, k below the maximum attempt count,
\* is not given up: the transport gives up only after at least that many
\* 429s; a 200 is returned at once, as the GET after the k 429s, each 429
\* followed by one sleep; and a call whose last answer is a 200 with a
\* valid payload returns the decoded payload with no error.
C8_BackoffThenSuccess ==
    /\ \A i \in ReqIdx :
          LET sg == Seg(i)
              g == SelectSeq(sg, IsGet)
              n == Len(g)
              fin == i + Len(sg) < Len(log) \/ pc # "mr"
          IN  /\ (fin /\ n >= 1 /\ n < maxRetries) => ~All429(g)
              /\ \A j \in DOMAIN g :
                    g[j].status = StatusOK
                       => /\ j = n
                          /\ fin
                          /\ \A k \in 1..(j - 1) : g[k].status = StatusTooManyRequests
                          /\ j - 1 < maxRetries \/ j = 1
                          /\ Len(SelectSeq(sg, IsSleep)) = j - 1
    /\ (pc = "done" /\ LastIsAnswer /\ ValidPayload(LastBody))
          => ret = [data |-> Decoded(LastBody), err |-> NoErr]

\* two 429s, then 200 with a one-element list, maximum attempt count 3
C8_Witness ==
    /\ pc = "done"
    /\ maxRetries = 3
    /\ Len(SearchReqs) = 1
    /\ LET g == Gets(LastReq)
       IN  /\ Len(g) = 3
           /\ g[1].status = StatusTooManyRequests
           /\ g[2].status = StatusTooManyRequests
           /\ g[3].status = StatusOK
           /\ g[3].body.torrent_results = "[Movie]"
    /\ ret = [data |-> Results(<<"Movie">>), err |-> NoErr]

\* C9: with a maximum attempt count N >= 1, a request whose GETs are all
\* answered 429 consists of GETs with one sleep between consecutive GETs;
\* it is given up after exactly N GETs and N - 1 sleeps, no sleep following
\* the last GET, with the rate-limit error; until then another GET follows.
C9_RateLimitExhaustion ==
    \A i \in ReqIdx :
        LET sg == Seg(i)
            g == SelectSeq(sg, IsGet)
            n == Len(g)
            fin == i + Len(sg) < Len(log) \/ pc # "mr"
        IN  (maxRetries >= 1 /\ n >= 1 /\ All429(g)) =>
               /\ n <= maxRetries
               /\ \A p \in DOMAIN sg :
                     IF p % 2 = 1 THEN IsGet(sg[p]) ELSE IsSleep(sg[p])
               /\ fin
                     => /\ n = maxRetries
                        /\ Len(SelectSeq(sg, IsSleep)) = n - 1
                        /\ Len(sg) = 2 * n - 1
                        /\ i = LastReq
                        /\ pc \in {"done", "failed"}
                        /\ pc = "done"
                              => ret.err = Err("maximum number of attempts reached", "", 0)
                        /\ pc = "failed"
                              => ret.err.text = "maximum number of attempts reached"
               /\ ~fin
                     => /\ n < maxRetries
                        /\ Len(SelectSeq(sg, IsSleep)) = n

\* a search answered 429 three times with maximum attempt count 3
C9_Witness ==
    /\ pc = "done"
    /\ maxRetries = 3
    /\ log[LastReq].kind = "search"
    /\ Len(Gets(LastReq)) = 3
    /\ All429(Gets(LastReq))
    /\ Len(Sleeps(LastReq)) = 2
    /\ ret.err = Err("maximum number of attempts reached", "", 0)

\* C10: MaxRetries(r), r >= 0: a request always answered 429 is given up
\* after the initial GET and r retries, r + 1 GETs in all.
C10_InitialGetPlusRetries ==
    \A i \in ReqIdx :
        (maxRetries >= 0 /\ Finished(i) /\ Len(Gets(i)) >= 1 /\ All429(Gets(i)))
            => Len(Gets(i)) = maxRetries + 1

\* C11: a GET answered with a status other than 200 and 429, or not answered
\* at all, is the last event of its request: no GET and no sleep follows it
\* in that request, nothing is sent after it, and the caller has returned
\* the transport's error; also when 429s came before it.
C11_OtherFailureEndsRequest ==
    \A i \in ReqIdx :
        LET sg == Seg(i)
        IN  \A p \in DOMAIN sg :
                (IsGet(sg[p]) /\ sg[p].status \notin {200, 429}) =>
                    /\ p = Len(sg)
                    /\ i = LastReq
                    /\ pc \in {"done", "failed"}
                    /\ pc = "done" => ret.err = TransportError(sg[p])
                    /\ pc = "failed" => ret.err.text = TransportError(sg[p]).kind

\* a search answered 429 and then 500
C11_Witness ==
    /\ pc = "done"
    /\ log[LastReq].kind = "search"
    /\ LET sg == Seg(LastReq)
       IN  /\ Len(sg) = 3
           /\ sg[1].status = 429
           /\ IsSleep(sg[2])
           /\ sg[3].status = 500
    /\ ret.err = Err("non 200-OK respose", "", 500)

\* C12: when the first search request of a call ends in a transport
\* failure, an envelope decode failure, a protocol error or an API error
\* with a code other than 4, call() has returned that error, one search
\* request was issued and no renewal follows it.
C12_OnlyExpiredTokenRetries ==
    (InCall /\ SearchIdx # {}) =>
        LET f == FirstSearch
            g == Gets(f)
            err == FatalSearchError(g[Len(g)])
        IN  (Finished(f) /\ Len(g) > 0 /\ err # NoErr) =>
                /\ pc = "done"
                /\ ret = [data |-> NilResults, err |-> err]
                /\ Len(SearchReqs) = 1
                /\ RenewIdxAfterSearch = {}

\* an API error of code 5 answered to the first search
C12_Witness ==
    /\ pc = "done"
    /\ LastIsAnswer
    /\ LastBody.torrent_results = "absent"
    /\ LastBody.error # ""
    /\ LastBody.error_code = 5
    /\ Len(SearchReqs) = 1
    /\ ret.err = Err("api", LastBody.error, 5)

\* C13: a call that starts with a renewal (the token was invalid) and whose
\* renewal fails has returned the renewal's error, has sent no search/list
\* request, and has cleared the query state.
C13_FailedFirstRenewalAborts ==
    (InCall /\ Len(log) >= 1 /\ log[1].kind = "renew") =>
        LET g == Gets(1)
            err == RenewalError(g[Len(g)])
        IN  (Finished(1) /\ Len(g) > 0 /\ err # NoErr) =>
                /\ pc = "done"
                /\ ret = [data |-> NilResults, err |-> err]
                /\ SearchIdx = {}
                /\ Query = <<>>
                /\ categories = <<>>

\* a call whose first renewal is answered 200 with a body that is no JSON
C13_Witness ==
    /\ pc = "done"
    /\ Len(log) = 2
    /\ log[1].kind = "renew"
    /\ log[2].status = 200
    /\ ~log[2].body.json
    /\ ret.err = Err("error decoding token", "", 0)
    /\ Query = <<>>
    /\ categories = <<>>

\* C14: when the first answer is the expired-token signal and the renewal
\* that follows fails, call() has returned the renewal's error and one
\* search request was sent in all.
C14_FailedSecondRenewalAborts ==
    (InCall /\ Len(Answers) >= 1 /\ Signal(Answers[1].body)) =>
        \A r \in RenewIdxAfterSearch :
            LET g == Gets(r)
                err == RenewalError(g[Len(g)])
            IN  (Finished(r) /\ Len(g) > 0 /\ err # NoErr) =>
                    /\ pc = "done"
                    /\ ret = [data |-> NilResults, err |-> err]
                    /\ Len(SearchReqs) = 1

\* expired token, then the renewal is answered 500
C14_Witness ==
    /\ pc = "done"
    /\ Len(Answers) = 1
    /\ Signal(Answers[1].body)
    /\ KindsFromFirstSearch = <<"search", "renew">>
    /\ LastGet(LastReq).status = 500
    /\ ret.err = Err("non 200-OK respose", "", 500)

\* number of category parameters in a request string
CategoryCount(q) == Len(SelectSeq(q, LAMBDA c : c = "&category="))

\* C15: the second search request of a call carries the request string of
\* the first, chunk for chunk; while it runs the accumulated query is the
\* one the first request was assembled from, and the category parameter
\* is in the string once (not at all when no category was chained).
C15_RetrySameRequestString ==
    Len(SearchReqs) = 2 =>
        /\ SearchReqs[2].query = SearchReqs[1].query
        /\ CategoryCount(SearchReqs[2].query) <= 1
        /\ pc = "mr" =>
              /\ caller = "search2"
              /\ query = SearchReqs[1].query
              /\ \E t \in Credentials : query = FullQuery(t, Query)
              /\ CategoryCount(query) = IF Len(categories) > 0 THEN 1 ELSE 0

\* a retried search with one category chained: both requests carry
\* category=14 once
C15_Witness ==
    /\ pc = "mr"
    /\ caller = "search2"
    /\ Len(SearchReqs) = 2
    /\ Len(categories) = 1
    /\ CategoryCount(SearchReqs[1].query) = 1
    /\ SearchReqs[2].query = SearchReqs[1].query

\* C16: a search answered 200 with a body that is no JSON, or with a
\* payload that is no result list, ends the call with an error and a nil
\* result; answered with a payload that is the empty array it ends the call
\* with an empty, non-nil result set and no error.
C16_UndecodableNeverEmptyResult ==
    \A i \in DOMAIN log :
        IsSearchOK(log[i]) =>
            LET b == log[i].body
            IN  /\ ~b.json
                      => /\ pc = "done"
                         /\ i = Len(log)
                         /\ ret = [data |-> NilResults, err |-> Err("decode", "", 0)]
                /\ (b.json /\ b.torrent_results = "notalist")
                      => /\ pc = "done"
                         /\ i = Len(log)
                         /\ ret = [data |-> NilResults, err |-> Err("unmarshal", "", 0)]
                /\ (b.json /\ b.torrent_results = "[]")
                      => /\ pc = "done"
                         /\ i = Len(log)
                         /\ ret = [data |-> Results(<<>>), err |-> NoErr]

\* a payload that is valid JSON but no list of results: the call fails
C16_Witness ==
    /\ pc = "done"
    /\ LastIsAnswer
    /\ LastBody.torrent_results = "notalist"
    /\ LastBody.error = ""
    /\ ret = [data |-> NilResults, err |-> Err("unmarshal", "", 0)]

\* the statuses of the GETs of the request entered at i
Statuses(i) == LET g == Gets(i) IN [j \in 1..Len(g) |-> g[j].status]

\* C19: a token renewal made inside a call backs off like any request: its
\* j-th GET answered 429, j below the maximum attempt count, is followed by
\* a sleep and the renewal is not given up.  And the call answered
\* token-expired, then (renewal) 429 and a token, then (retried search) 429
\* and 200 with a payload, returns that payload with no error.
C19_BackoffCoversRenewals ==
    InCall =>
        /\ \A r \in DOMAIN log :
              (IsReq(log[r]) /\ log[r].kind = "renew") =>
                  LET sg == Seg(r)
                      g == SelectSeq(sg, IsGet)
                      fin == r + Len(sg) < Len(log) \/ pc # "mr"
                  IN  \A j \in DOMAIN g :
                          (g[j].status = 429 /\ j < maxRetries) =>
                              /\ Len(sg) >= 2 * j
                              /\ IsSleep(sg[2 * j])
                              /\ ~(fin /\ j = Len(g))
        /\ (/\ pc = "done"
            /\ Len(Answers) = 2
            /\ Signal(Answers[1].body)
            /\ ValidPayload(Answers[2].body)
            /\ KindsFromFirstSearch = <<"search", "renew", "search">>
            /\ \A r \in RenewIdxAfterSearch :
                  Statuses(r) = <<429, 200>> /\ LastGet(r).body.json
            /\ Statuses(LastReq) = <<429, 200>>)
              => ret = [data |-> Decoded(Answers[2].body), err |-> NoErr]

\* token expired, too many requests, token, too many requests, OK
C19_Witness ==
    /\ pc = "done"
    /\ Len(log) = 10
    /\ IsSearchReq(log[1])
    /\ IsSearchOK(log[2]) /\ Signal(log[2].body)
    /\ IsReq(log[3]) /\ log[3].kind = "renew"
    /\ IsGet(log[4]) /\ log[4].status = 429
    /\ IsSleep(log[5])
    /\ IsRenewOK(log[6]) /\ log[6].body.token = "tokB"
    /\ IsSearchReq(log[7])
    /\ IsGet(log[8]) /\ log[8].status = 429
    /\ IsSleep(log[9])
    /\ IsSearchOK(log[10]) /\ log[10].body.torrent_results = "[Movie]"
    /\ ret = [data |-> Results(<<"Movie">>), err |-> NoErr]

\* C20: New requests one renewal (one request string, the token request)
\* and returns only when that request has ended.  If it ended with a
\* decoded 200, the client returned holds the credential of that answer
\* with expiry one expiration window after the present instant, and empty
\* query state; otherwise New returns an error and no client.  The first
\* terminal operation on the returned client, the token being still valid,
\* sends its search request without a renewal before it.
C20_NewRenewsOnce ==
    [][ /\ caller = "New" =>
              /\ pc' \in {"mr", "idle", "failed"}
              /\ pc' = "mr" => caller' = "New"
              /\ SelectSeq(log', IsReq) = <<ReqEv("renew", RenewQuery)>>
              /\ pc' # "mr" =>
                    LET e == log'[Len(log')]
                    IN  /\ IsGet(e)
                        /\ pc' = "idle" =>
                              /\ RenewalError(e) = NoErr
                              /\ APIToken' = [Token |-> e.body.token,
                                              Expires |-> tokenExpiration]
                              /\ Query' = <<>>
                              /\ categories' = <<>>
                        /\ pc' = "failed" =>
                              /\ RenewalError(e) # NoErr
                              /\ ret'.err = Err("error renewing token",
                                                RenewalError(e).kind, 0)
        /\ (pc = "idle" /\ Len(log) > 0 /\ pc' = "mr" /\ IsValid(APIToken)) =>
              /\ caller' = "search1"
              /\ log' = <<ReqEv("search", query')>>
      ]_vars

\* New has returned a client after a 429 and a token answer
C20_Witness ==
    /\ pc = "idle"
    /\ Len(log) = 4
    /\ log[2].status = 429
    /\ IsRenewOK(log[4])
    /\ log[4].body.token = "tokA"
    /\ APIToken = [Token |-> "tokA", Expires |-> tokenExpiration]
    /\ Query = <<>>
    /\ categories = <<>>

RECURSIVE JoinedCodes(_)
\* the text c1;c2;...;cn of a category list, written out from its last
\* code backwards
JoinedCodes(cats) ==
    IF Len(cats) = 1 THEN Itoa(cats[1])
    ELSE JoinedCodes(SubSeq(cats, 1, Len(cats) - 1))
             \o <<";">> \o Itoa(cats[Len(cats)])

\* C17 (builder): a Category call leaves the accumulated query as it is and
\* puts its code at the end of the category list.  When a terminal
\* operation sends its request after n Category calls, the accumulated
\* query (with the mode parameter) holds no category parameter before, and
\* for n > 0 it is followed by the one parameter category=c1;...;cn, the
\* codes in call order; for n = 0 nothing is added; the request string is
\* the URL, the token, that query and the application id.
C17_CategoryAccumulation ==
    [][ /\ CategoryChained =>
              /\ Query' = Query
              /\ Len(categories') = Len(categories) + 1
              /\ SubSeq(categories', 1, Len(categories)) = categories
        /\ (pc # "mr" /\ pc' = "mr") =>
              \E m \in {"&mode=search", "&mode=list"} :
                  LET acc == Query \o <<m>>
                  IN  /\ CategoryCount(acc) = 0
                      /\ categories' = categories
                      /\ Query' = IF Len(categories) > 0
                                  THEN acc \o <<"&category=">> \o JoinedCodes(categories)
                                  ELSE acc
                      /\ CategoryCount(Query') = IF Len(categories) > 0 THEN 1 ELSE 0
                      /\ query' = <<"URL?", "&token=", "tokA">> \o Query'
                                      \o <<"&app_id=", "app">>
                      /\ log' = <<ReqEv("search", query')>>
      ]_vars

\* Limit(25), Category(4), Category(14), Search: category=4;14 comes last
C17_Witness ==
    /\ pc = "mr"
    /\ categories = <<4, 14>>
    /\ query = <<"URL?", "&token=", "tokA", "&limit=", "2", "5", "&mode=search",
                 "&category=", "4", ";", "1", "4", "&app_id=", "app">>

\* the accumulated query has grown by exactly the parameter p, the category
\* list and the token being left alone
AppendedExactly(p) ==
    /\ Query' = Query \o p
    /\ SubSeq(Query', Len(Query') - Len(p) + 1, Len(Query')) = p
    /\ categories' = categories
    /\ APIToken' = APIToken

\* C18 (builder): each chainable operation other than Category appends
\* exactly its parameter, spelled as the service expects it, to the
\* accumulated query and changes neither the category list nor the token.
C18_OneParameterAppended ==
    [][ /\ SearchString =>
              \/ AppendedExactly(<<"&search_string=", "t", "e", "s", "t">>)
              \/ AppendedExactly(<<"&search_string=", "a", "+", "%", "2", "6">>)
        /\ SearchTVDB => AppendedExactly(<<"&search_tvdb=", "t", "t", "1">>)
        /\ SearchIMDb => AppendedExactly(<<"&search_imdb=", "t", "t", "1">>)
        /\ SearchTheMovieDb => AppendedExactly(<<"&search_themoviedb=", "t", "t", "1">>)
        /\ Format => AppendedExactly(<<"&format=", "json_extended">>)
        /\ Limit => AppendedExactly(<<"&limit=", "2", "5">>)
        /\ Sort => AppendedExactly(<<"&sort=", "seeders">>)
        /\ Ranked =>
              \/ AppendedExactly(<<"&ranked=1">>)
              \/ AppendedExactly(<<"&ranked=0">>)
        /\ MinSeeders => AppendedExactly(<<"&min_seeders=", "7">>)
        /\ MinLeechers => AppendedExactly(<<"&min_leechers=", "7">>)
      ]_vars

\* SearchString("a &") chained after Ranked(true)
C18_Witness ==
    /\ pc = "idle"
    /\ Query = <<"&ranked=1", "&search_string=", "a", "+", "%", "2", "6">>
    /\ categories = <<>>

\* the category parameter a request carries for the category list cats
ExpectedCategoryPart(cats) ==
    IF Len(cats) > 0 THEN <<"&category=">> \o JoinedCodes(cats) ELSE <<>>

\* C21: query state is single-use.  Every return of call(), with a result
\* or with any error, leaves the accumulated query and the category list
\* empty; the category list changes only by that reset and by a Category
\* call appending its code; the first step after a return starts from the
\* empty state (a call made at once accumulates its mode parameter only);
\* and the request string a call sends is the URL, the held credential, the
\* mode parameter, the category parameter for the list chained since the
\* last return, and the application id, nothing else.
C21_QueryStateSingleUse ==
    [][ /\ pc' = "done" => (Query' = <<>> /\ categories' = <<>>)
        /\ pc' = "idle" => Query' = <<>>
        /\ categories' # categories =>
              \/ pc' = "done" /\ categories' = <<>>
              \/ /\ pc' = "idle"
                 /\ Len(categories') = Len(categories) + 1
                 /\ SubSeq(categories', 1, Len(categories)) = categories
        /\ (pc = "done" /\ pc' = "mr") =>
              /\ categories' = <<>>
              /\ Query' \in {<<"&mode=search">>, <<"&mode=list">>}
        /\ (caller' = "search1" /\ caller # "search1") =>
              \E m \in {"&mode=search", "&mode=list"} :
                  /\ query' = <<"URL?", "&token=">> \o Chunk(APIToken'.Token)
                                  \o <<m>> \o ExpectedCategoryPart(categories)
                                  \o <<"&app_id=", "app">>
                  /\ log'[Len(log')] = ReqEv("search", query')
      ]_vars

\* a call with a category chained has failed with an API error after a
\* retry, and has left empty query state for the next call
C21_Witness ==
    /\ pc = "done"
    /\ ret.err.kind = "api"
    /\ Len(SearchReqs) = 2
    /\ CategoryCount(query) = 1
    /\ Query = <<>>
    /\ categories = <<>>

\* the largest number of GETs one request may take
GetBudget == IF maxRetries > 1 THEN maxRetries ELSE 1

\* C22: every call() that has started returns, whatever the answers to its
\* GETs; and in one call there are at most two search requests and at most
\* two renewals, one before the first search request and one after it, none
\* of them taking more than max(1, maximum attempt count) GETs.
C22_CallTerminatesWithinBounds ==
    /\ [](InCall =>
            /\ Len(SearchReqs) <= 2
            /\ Len(SelectSeq(log, IsReq)) - Len(SearchReqs) <= 2
            /\ Len(SelectSeq(log, IsReq)) - Len(ReqsFromFirstSearch) <= 1
            /\ RenewalsAfterFirstSearch <= 1
            /\ \A i \in DOMAIN log :
                  IsReq(log[i]) => Len(Gets(i)) <= GetBudget)
    /\ (pc = "mr" /\ caller # "New") ~> (pc = "done")

\* a call that took four requests, the last one all its GETs, has returned
C22_Witness ==
    /\ pc = "done"
    /\ maxRetries = 3
    /\ Len(SelectSeq(log, IsReq)) = 4
    /\ Len(SearchReqs) = 2
    /\ Len(Gets(LastReq)) = 3

\* number of token requests entered in a log
RenewReqCount(l) == Len(SelectSeq(l, LAMBDA e : IsReq(e) /\ e.kind = "renew"))
\* this step of a call enters a token request
RenewalIssued ==
    /\ pc' = "mr"
    /\ caller' # "New"
    /\ IF Len(log') > Len(log) /\ SubSeq(log', 1, Len(log)) = log
       THEN RenewReqCount(log') > RenewReqCount(log)
       ELSE RenewReqCount(log') > 0
\* the held token is one IsValid accepts, written out
HeldTokenValid == APIToken.Token # "" /\ APIToken.Expires >= 0

\* C23: a step of call() enters a token request only when the call starts
\* with a token that is not valid, or when the answer to the first search
\* request has just been read as the expired-token signal.  The held token
\* changes only when a renewal returns; apart from that its credential
\* stays and its expiry only comes nearer as time passes.  So a call that
\* starts with a valid token and receives no expired-token signal returns
\* with the token it started with.
C23_RenewalOnlyWhenNeeded ==
    [][ /\ RenewalIssued =>
              \/ pc \in {"idle", "done"} /\ ~HeldTokenValid
              \/ /\ pc = "mr"
                 /\ caller = "search1"
                 /\ Len(log') = Len(log) + 2
                 /\ IsSearchOK(log'[Len(log) + 1])
                 /\ Signal(log'[Len(log) + 1].body)
        /\ APIToken' # APIToken =>
              \/ /\ pc = "mr"
                 /\ caller \in {"New", "renew1", "renew2"}
                 /\ caller' # caller
              \/ /\ APIToken'.Token = APIToken.Token
                 /\ APIToken'.Expires < APIToken.Expires
                 /\ pc \in {"idle", "done"} \/ IsSleep(log'[Len(log')])
        /\ (pc = "mr" /\ caller = "search1" /\ pc' = "done"
              /\ IsSearchReq(log[1]) /\ Len(SearchReqs) = 1) =>
              /\ APIToken' = APIToken
              /\ query = FullQuery(APIToken'.Token, Query)
      ]_vars

\* a call that started with a valid token and was answered 429 and then
\* with a list returns holding the credential it sent
C23_Witness ==
    /\ pc = "done"
    /\ Len(log) = 4
    /\ IsSearchReq(log[1])
    /\ log[2].status = 429
    /\ IsSleep(log[3])
    /\ IsSearchOK(log[4])
    /\ ret.err = NoErr
    /\ APIToken.Token = "tokA"
    /\ query[3] = "tokA"

\* C24: while a search/list request is with the transport, the request
\* string is the one assembled with the credential the client holds, the
\* request sent again after a renewal included.
C24_RequestCarriesHeldCredential ==
    (pc = "mr" /\ caller \in {"search1", "search2"}) =>
        /\ query = FullQuery(APIToken.Token, Query)
        /\ log[LastReq].query = query

\* C25: at the moment a search/list request is handed to the transport the
\* client holds a token IsValid accepts, also after a renewal answered
\* with a body that decodes but carries no credential.
C25_RequestOnlyWithValidToken ==
    (pc = "mr" /\ caller \in {"search1", "search2"} /\ IsReq(log[Len(log)]))
        => IsValid(APIToken)

\* C26: a call that has returned because a renewal failed (its last
\* request is a token request) leaves a token IsValid rejects; and the
\* next call on the client starts with a renewal.
C26_FailedRenewalLeavesInvalidToken ==
    /\ []((pc = "done" /\ log[Len(log)].kind = "renew") =>
            /\ ret.err # NoErr
            /\ ~HeldTokenValid
            /\ ~IsValid(APIToken))
    /\ [][(pc = "done" /\ log[Len(log)].kind = "renew" /\ pc' = "mr") =>
            /\ caller' = "renew1"
            /\ log' = <<ReqEv("renew", RenewQuery)>>]_vars

\* the token sent was answered expired and the renewal was answered 500:
\* the call has failed and the client holds the zero token
C26_Witness ==
    /\ pc = "done"
    /\ Len(Answers) = 1
    /\ Signal(Answers[1].body)
    /\ log[LastReq].kind = "renew"
    /\ query[3] = "tokA"
    /\ log[Len(log)].status = 500
    /\ APIToken = ZeroToken

----------------------------------------------------------------------------

\* the other goroutine
Other(t) == 3 - t
\* the chunks sub occur next to each other in q
Contains(q, sub) ==
    \E i \in 0 .. (Len(q) - Len(sub)) : SubSeq(q, i + 1, i + Len(sub)) = sub
\* the parameter and the category code goroutine t configured
OwnLimit(t) == <<"&limit=">> \o Itoa(LimitOf(t))
OwnCode(t) == Itoa(CategoryOf(t))
\* the request string of goroutine t's chain Limit, Category, Search alone
OwnRequest(t) ==
    FullQuery(APIToken.Token,
              OwnLimit(t) \o <<"&mode=search", "&category=">> \o OwnCode(t))
\* goroutine t's call has sent its request
Sent(t) == goroutine[t].pc \in {"reset_cats", "reset_query", "end"}
\* the request t sent holds a parameter or a category of the other chain
CarriesForeign(t) ==
    \/ Contains(goroutine[t].query, OwnLimit(Other(t)))
    \/ Contains(goroutine[t].query, OwnCode(Other(t)))
\* the request t sent lacks a parameter or the category t configured
LacksOwn(t) ==
    \/ ~Contains(goroutine[t].query, OwnLimit(t))
    \/ ~Contains(goroutine[t].query, OwnCode(t))

\* C27: when the two chains run under one lock held from the first builder
\* call until call() has returned, every request sent is exactly the one its
\* own chain configured: it holds nothing of the other chain and lacks
\* nothing of its own.  (That without the lock a request with the other
\* chain's parameters, and one whose parameters were erased, are reachable
\* is C27_Witness.)
C27_SerializedCallsIsolated ==
    mutex # "absent" =>
        \A t \in Goroutines :
            Sent(t) =>
                /\ goroutine[t].query = OwnRequest(t)
                /\ ~CarriesForeign(t)
                /\ ~LacksOwn(t)

\* without a lock: goroutine 1 has sent a request that holds the limit and
\* the category of goroutine 2, and goroutine 2 has sent one from which its
\* own limit and category are gone
C27_Witness ==
    /\ mutex = "absent"
    /\ Sent(1) /\ Sent(2)
    /\ Contains(goroutine[1].query, OwnLimit(2))
    /\ Contains(goroutine[1].query, OwnCode(2))
    /\ ~Contains(goroutine[2].query, OwnLimit(2))
    /\ ~Contains(goroutine[2].query, OwnCode(2))

\* the GETs of the call that were answered with a response
Responses == {i \in DOMAIN log : IsGet(log[i]) /\ log[i].status # 0}

\* C28: when call() has returned, the body of every response received
\* during the call (200, 429 or another status, for a search or for a
\* renewal) has been closed.
C28_NoResponseLeftOpen ==
    pc = "done" => \A i \in Responses : BodyClosed(log[i])

====
